---------------------------- MODULE Spec2Model ----------------------------
(***************************************************************************)
(* Model of the nerdcal calendar library: the Gregorian ordinal engine,    *)
(* the IFC, Positivist and Seasonal date types, their validation, their    *)
(* conversions to and from ordinals, day-delta addition and replace().     *)
(*                                                                         *)
(* A date object is a record [kind, cls, year, period, day]; `period` is   *)
(* the dataclass field `month` (IFCDate, PositivistDate) or `season`       *)
(* (SeasonalDate).  A raised exception is a record whose kind names it.    *)
(*                                                                         *)
(* The model is of the bodies of the methods.  PositivistDate is IFCDate   *)
(* with the methods it overrides; SeasonalDate takes fromordinal and       *)
(* __add__ from the Date base class of _base.py.                           *)
(***************************************************************************)
EXTENDS Integers, Sequences, FiniteSets

-----------------------------------------------------------------------------
(* Bounds of the model *)

\* years within YearSpan of each seam year are drawn as inputs
YearSpan == 1
\* periods and days are drawn up to Margin outside the widest valid range
Margin == 1
\* day deltas are drawn from -MaxDelta..MaxDelta
MaxDelta == 2

-----------------------------------------------------------------------------
(* Program constants *)

MIN_YEAR == 1
MAX_YEAR == 9999
MAX_ORDINAL == 3652059
DAYS_IN_YEAR == 365
MIN_MONTH == 1
MAX_MONTH == 13
DAYS_IN_MONTH == 28
MIN_SEASON == 1
MAX_SEASON == 5
DAYS_IN_SEASON == 73
DAYS_IN_WEEK == 7
MIDSEASON_DAY == 37
\* DAYS_IN_WEEK of seasonal.py
SEASONAL_DAYS_IN_WEEK == 9
\* the shift of the Seasonal year start, seasonal.py lines 107 and 120
SEASONAL_SHIFT == 11

-----------------------------------------------------------------------------
(* Helpers: utils.py, _base.py and the standard library calls they use *)

is_leap_year(year) ==
    year % 4 = 0 /\ (year % 100 # 0 \/ year % 400 = 0)

\* calendar.isleap, used by seasonal.py and positivist.py
isleap(year) ==
    year % 4 = 0 /\ (year % 100 # 0 \/ year % 400 = 0)

\* days_before_year without the leap years of the 400-year cycle
days_before_year_no_400(year) ==
    LET y == year - 1
    IN  y * 365 + (y \div 4) - (y \div 100)

days_before_year(year) ==
    LET y == year - 1
    IN  y * 365 + (y \div 4) - (y \div 100) + (y \div 400)

DI400Y == days_before_year(401)
DI100Y == days_before_year(101)
DI4Y == days_before_year(5)

\* bisect.bisect (bisect_right) on a sorted list: the insertion point after
\* every entry that is <= x
bisect(a, x) ==
    CHOOSE i \in 0..Len(a) :
        /\ \A j \in 1..i : a[j] <= x
        /\ \A j \in (i + 1)..Len(a) : a[j] > x

\* a[i] on a Python list: 0-based, a negative index counts from the end
PyIndex(a, i) == IF i >= 0 THEN a[i + 1] ELSE a[Len(a) + i + 1]

\* a raised exception
Raise(exc) == [kind |-> exc, cls |-> "none", year |-> 0, period |-> 0, day |-> 0]

\* an instance of a date class
Obj(cls, year, period, day) ==
    [kind |-> "date", cls |-> cls, year |-> year, period |-> period, day |-> day]

NoDate == [kind |-> "none", cls |-> "none", year |-> 0, period |-> 0, day |-> 0]

-----------------------------------------------------------------------------
(* IFC: ifc.py *)

\* _days_in_month without the leap-year test on June
_days_in_month_every_year(year, month) ==
    IF (month = 6) \/ (month = 13)
    THEN DAYS_IN_MONTH + 1
    ELSE DAYS_IN_MONTH

_days_in_month(year, month) ==
    IF (month = 6 /\ is_leap_year(year)) \/ (month = 13)
    THEN DAYS_IN_MONTH + 1
    ELSE DAYS_IN_MONTH

\* _days_before_month with the leap day counted from range(7, 13) on
_days_before_month_late(is_leap) ==
    IF is_leap
    THEN [j \in 1..13 |-> IF j - 1 < 7 THEN 28 * (j - 1) ELSE 28 * (j - 1) + 1]
    ELSE [j \in 1..13 |-> 28 * (j - 1)]

_days_before_month(is_leap) ==
    IF is_leap
    THEN [j \in 1..13 |-> IF j - 1 < 6 THEN 28 * (j - 1) ELSE 28 * (j - 1) + 1]
    ELSE [j \in 1..13 |-> 28 * (j - 1)]

\* IFCDate.__post_init__, inherited unchanged by PositivistDate: the call of
\* _days_in_month resolves to the module-level function of ifc.py
IFCDate_post_init(cls, year, month, day) ==
    IF ~(MIN_YEAR <= year /\ year <= MAX_YEAR) THEN Raise("ValueError")
    ELSE IF ~(1 <= month /\ month <= 13) THEN Raise("ValueError")
    ELSE LET dim == _days_in_month(year, month)
         IN  IF ~(1 <= day /\ day <= dim) THEN Raise("ValueError")
             ELSE Obj(cls, year, month, day)

IFCDate_fromordinal(cls, n) ==
    LET n0   == n - 1
        n400 == n0 \div DI400Y
        r400 == n0 % DI400Y
        n100 == r400 \div DI100Y
        r100 == r400 % DI100Y
        n4   == r100 \div DI4Y
        r4   == r100 % DI4Y
        n1   == r4 \div DAYS_IN_YEAR
        r1   == r4 % DAYS_IN_YEAR
        year == n400 * 400 + n100 * 100 + n4 * 4 + n1 + 1
        leapyear == n1 = 3 /\ (n4 # 24 \/ n100 = 3)
        dbm   == _days_before_month(leapyear)
        month == bisect(dbm, r1)
        day   == r1 - PyIndex(dbm, month - 1)
    IN  IF n1 = 4 \/ n100 = 4 THEN IFCDate_post_init(cls, year - 1, 13, 29)
        ELSE IF leapyear # is_leap_year(year) THEN Raise("AssertionError")
        ELSE IFCDate_post_init(cls, year, month, day + 1)

IFCDate_toordinal(d) ==
    days_before_year(d.year)
        + PyIndex(_days_before_month(is_leap_year(d.year)), d.period - 1)
        + d.day

\* `y if x is None else x`: only None counts as not given
Or_none_only(x, y) == IF x = <<>> THEN y ELSE x[1]

\* `x or y` on an optional integer argument: <<>> is None, <<v>> is v
Or(x, y) == IF x = <<>> THEN y ELSE IF x[1] = 0 THEN y ELSE x[1]

IFCDate_replace(d, year, month, day) ==
    IFCDate_post_init(d.cls, Or(year, d.year), Or(month, d.period), Or(day, d.day))

\* IFCDate.__add__ with other = timedelta(days = k); the result is built by
\* IFCDate.fromordinal whatever the class of d
IFCDate_add(d, k) ==
    LET o == IFCDate_toordinal(d) + k
    IN  IF 0 < o /\ o <= MAX_ORDINAL THEN IFCDate_fromordinal("IFC", o)
        ELSE Raise("OverflowError")

\* IFCDate.__sub__ with other = timedelta(days = k)
IFCDate_sub(d, k) == IFCDate_add(d, 0 - k)

\* weekday without the shift after Leap Day
IFCDate_weekday_unshifted(d) ==
    IF d.period = 13 /\ d.day = 29 THEN 7
    ELSE IF d.period = 6 /\ d.day = 29 THEN 8
    ELSE LET day_of_year == IFCDate_toordinal(d) - days_before_year(d.year)
         IN  (day_of_year - 1) % DAYS_IN_WEEK

IFCDate_weekday(d) ==
    IF d.period = 13 /\ d.day = 29 THEN 7
    ELSE IF d.period = 6 /\ d.day = 29 THEN 8
    ELSE LET day_of_year == IFCDate_toordinal(d) - days_before_year(d.year)
         IN  IF d.period >= 7 /\ is_leap_year(d.year)
             THEN day_of_year % DAYS_IN_WEEK
             ELSE (day_of_year - 1) % DAYS_IN_WEEK

\* the order of the dataclass (order = True): the field tuples compared
\* lexicographically
Date_lt(a, b) ==
    \/ a.year < b.year
    \/ a.year = b.year /\ a.period < b.period
    \/ a.year = b.year /\ a.period = b.period /\ a.day < b.day

\* the equality of the dataclass: same class and equal field tuples
Date_eq(a, b) ==
    a.cls = b.cls /\ a.year = b.year /\ a.period = b.period /\ a.day = b.day

-----------------------------------------------------------------------------
(* Positivist: positivist.py *)

\* PositivistDate._days_in_month: the list of month lengths of a year.  No
\* code of the repository calls it.
PositivistDate_days_in_month(year) ==
    LET leap_year == isleap(year)
    IN  [month \in MIN_MONTH..MAX_MONTH |->
            IF month = 13
            THEN DAYS_IN_MONTH + 1 + (IF leap_year THEN 1 ELSE 0)
            ELSE DAYS_IN_MONTH]

PositivistDate_weekday(d) ==
    IF d.period = 13 /\ d.day = 29 THEN 7
    ELSE IF d.period = 13 /\ d.day = 30 THEN 8
    ELSE LET day_of_year == IFCDate_toordinal(d) - days_before_year(d.year)
         IN  (day_of_year - 1) % DAYS_IN_WEEK

-----------------------------------------------------------------------------
(* Seasonal: seasonal.py and the Date base class of _base.py *)

\* __post_init__ with min_day 0 in season 1 of every year
SeasonalDate_post_init_every_year(cls, year, season, day) ==
    IF ~(MIN_YEAR <= year /\ year <= MAX_YEAR) THEN Raise("ValueError")
    ELSE IF ~(MIN_SEASON <= season /\ season <= MAX_SEASON) THEN Raise("ValueError")
    ELSE LET min_day == IF season = 1 THEN 0 ELSE 1
         IN  IF ~(min_day <= day /\ day <= DAYS_IN_SEASON) THEN Raise("ValueError")
             ELSE Obj(cls, year, season, day)

SeasonalDate_post_init(cls, year, season, day) ==
    IF ~(MIN_YEAR <= year /\ year <= MAX_YEAR) THEN Raise("ValueError")
    ELSE IF ~(MIN_SEASON <= season /\ season <= MAX_SEASON) THEN Raise("ValueError")
    ELSE LET min_day == IF season = 1 /\ isleap(year) THEN 0 ELSE 1
         IN  IF ~(min_day <= day /\ day <= DAYS_IN_SEASON) THEN Raise("ValueError")
             ELSE Obj(cls, year, season, day)

_days_in_season(year) ==
    [season \in MIN_SEASON..MAX_SEASON |->
        IF season = 1 /\ isleap(year) THEN DAYS_IN_SEASON + 1 ELSE DAYS_IN_SEASON]

\* itertools.accumulate(a, add): the running sums of a
RECURSIVE accumulate(_)
accumulate(a) ==
    IF Len(a) = 0 THEN <<>>
    ELSE LET front == accumulate(SubSeq(a, 1, Len(a) - 1))
         IN  IF Len(front) = 0 THEN <<a[1]>>
             ELSE Append(front, front[Len(front)] + a[Len(a)])

_days_before_season(year) ==
    LET acc == accumulate(<<0>> \o _days_in_season(year))
    IN  SubSeq(acc, 1, Len(acc) - 1)

\* _from_year_and_ordinal with the leap slot one day late
SeasonalDate_from_year_and_ordinal_late(cls, year, n) ==
    LET dbs    == _days_before_season(year)
        season == bisect(dbs, n)
        day0   == n - PyIndex(dbs, season - 1)
        day    == IF season = 1
                  THEN (IF day0 = 71 THEN -1
                        ELSE IF day0 > 71 THEN day0 - 1 ELSE day0)
                  ELSE day0
    IN  SeasonalDate_post_init(cls, year, season, day + 1)

SeasonalDate_from_year_and_ordinal(cls, year, n) ==
    LET dbs    == _days_before_season(year)
        season == bisect(dbs, n)
        day0   == n - PyIndex(dbs, season - 1)
        day    == IF season = 1
                  THEN (IF day0 = 70 THEN -1
                        ELSE IF day0 > 70 THEN day0 - 1 ELSE day0)
                  ELSE day0
    IN  SeasonalDate_post_init(cls, year, season, day + 1)

Date_fromordinal(cls, n) ==
    LET n0   == n - 1
        n400 == n0 \div DI400Y
        r400 == n0 % DI400Y
        n100 == r400 \div DI100Y
        r100 == r400 % DI100Y
        n4   == r100 \div DI4Y
        r4   == r100 % DI4Y
        n1   == r4 \div DAYS_IN_YEAR
        r1   == r4 % DAYS_IN_YEAR
        year == n400 * 400 + n100 * 100 + n4 * 4 + n1 + 1
        leapyear == n1 = 3 /\ (n4 # 24 \/ n100 = 3)
    IN  IF n1 = 4 \/ n100 = 4
        THEN SeasonalDate_from_year_and_ordinal(cls, year - 1, DAYS_IN_YEAR)
        ELSE IF leapyear # isleap(year) THEN Raise("AssertionError")
        ELSE SeasonalDate_from_year_and_ordinal(cls, year, r1)

SeasonalDate_fromordinal(cls, n) == Date_fromordinal(cls, n + SEASONAL_SHIFT)

\* toordinal without the shift of the days after the leap day
SeasonalDate_toordinal_no_shift(d) ==
    LET day_offset ==
            IF isleap(d.year) /\ d.period = 1
            THEN (IF d.day = 0 THEN 71 ELSE d.day)
            ELSE d.day
        o == days_before_year(d.year)
                + PyIndex(_days_before_season(d.year), d.period - 1)
                + day_offset
    IN  o - SEASONAL_SHIFT

SeasonalDate_toordinal(d) ==
    LET day_offset ==
            IF isleap(d.year) /\ d.period = 1
            THEN (IF d.day = 0 THEN 71
                  ELSE IF d.day >= 71 THEN d.day + 1 ELSE d.day)
            ELSE d.day
        o == days_before_year(d.year)
                + PyIndex(_days_before_season(d.year), d.period - 1)
                + day_offset
    IN  o - SEASONAL_SHIFT

\* replace with the season and the day passed in the wrong order
SeasonalDate_replace_swapped(d, year, season, day) ==
    SeasonalDate_post_init(d.cls, Or(year, d.year), Or(day, d.day), Or(season, d.period))

SeasonalDate_replace(d, year, season, day) ==
    SeasonalDate_post_init(d.cls, Or(year, d.year), Or(season, d.period), Or(day, d.day))

\* Date.__add__ with other = timedelta(days = k)
Date_add(d, k) ==
    LET o == SeasonalDate_toordinal(d) + k
    IN  IF 0 < o /\ o <= MAX_ORDINAL THEN SeasonalDate_fromordinal(d.cls, o)
        ELSE Raise("OverflowError")

\* Date.__sub__ with other = timedelta(days = k)
Date_sub(d, k) == Date_add(d, 0 - k)

\* weekday without the case of the days after the mid-season day
SeasonalDate_weekday_one_case(d) ==
    IF d.day = 0 THEN 10
    ELSE IF d.day = MIDSEASON_DAY THEN 9
    ELSE (d.day - 1) % SEASONAL_DAYS_IN_WEEK

SeasonalDate_weekday(d) ==
    IF d.day = 0 THEN 10
    ELSE IF d.day = MIDSEASON_DAY THEN 9
    ELSE IF d.day > MIDSEASON_DAY THEN (d.day - 2) % SEASONAL_DAYS_IN_WEEK
    ELSE (d.day - 1) % SEASONAL_DAYS_IN_WEEK

\* week_of_year without the case of the mid-season day
SeasonalDate_week_of_year_no_midseason(d) ==
    IF d.day = 0 THEN 7
    ELSE IF d.day > MIDSEASON_DAY THEN (d.day - 2) \div SEASONAL_DAYS_IN_WEEK
    ELSE (d.day - 1) \div SEASONAL_DAYS_IN_WEEK

SeasonalDate_week_of_year(d) ==
    IF d.day = 0 THEN 7
    ELSE IF d.day = MIDSEASON_DAY THEN 3
    ELSE IF d.day > MIDSEASON_DAY THEN (d.day - 2) \div SEASONAL_DAYS_IN_WEEK
    ELSE (d.day - 1) \div SEASONAL_DAYS_IN_WEEK

\* the leap flag taken from n1 alone
fromordinal_locals_every_4(n) ==
    LET n0   == n - 1
        n400 == n0 \div DI400Y
        r400 == n0 % DI400Y
        n100 == r400 \div DI100Y
        r100 == r400 % DI100Y
        n4   == r100 \div DI4Y
        r4   == r100 % DI4Y
        n1   == r4 \div DAYS_IN_YEAR
        r1   == r4 % DAYS_IN_YEAR
    IN  [arg |-> n, n400 |-> n400, n100 |-> n100, n4 |-> n4, n1 |-> n1, n |-> r1,
         year |-> n400 * 400 + n100 * 100 + n4 * 4 + n1 + 1,
         last_day |-> (n1 = 4 \/ n100 = 4),
         leapyear |-> (n1 = 3)]

\* the local variables of Date.fromordinal and of IFCDate.fromordinal (the
\* same statements) when the leap flag has been computed: arg is the
\* argument, n the remainder, last_day the test of the last-day branch
fromordinal_locals(n) ==
    LET n0   == n - 1
        n400 == n0 \div DI400Y
        r400 == n0 % DI400Y
        n100 == r400 \div DI100Y
        r100 == r400 % DI100Y
        n4   == r100 \div DI4Y
        r4   == r100 % DI4Y
        n1   == r4 \div DAYS_IN_YEAR
        r1   == r4 % DAYS_IN_YEAR
    IN  [arg |-> n, n400 |-> n400, n100 |-> n100, n4 |-> n4, n1 |-> n1, n |-> r1,
         year |-> n400 * 400 + n100 * 100 + n4 * 4 + n1 + 1,
         last_day |-> (n1 = 4 \/ n100 = 4),
         leapyear |-> (n1 = 3 /\ (n4 # 24 \/ n100 = 3))]

NoLocals ==
    [arg |-> 0, n400 |-> 0, n100 |-> 0, n4 |-> 0, n1 |-> 0, n |-> 0,
     year |-> 0, last_day |-> FALSE, leapyear |-> FALSE]

-----------------------------------------------------------------------------
(* Dispatch on the class of the date *)

Calendars == {"IFC", "Positivist", "Seasonal"}

\* cls(year, period, day)
New(cls, year, period, day) ==
    IF cls = "Seasonal" THEN SeasonalDate_post_init(cls, year, period, day)
    ELSE IFCDate_post_init(cls, year, period, day)

\* cls.fromordinal(n)
FromOrdinal(cls, n) ==
    IF cls = "Seasonal" THEN SeasonalDate_fromordinal(cls, n)
    ELSE IFCDate_fromordinal(cls, n)

\* d.toordinal()
ToOrdinal(d) ==
    IF d.cls = "Seasonal" THEN SeasonalDate_toordinal(d) ELSE IFCDate_toordinal(d)

\* d + timedelta(days = k)
Plus(d, k) ==
    IF d.cls = "Seasonal" THEN Date_add(d, k) ELSE IFCDate_add(d, k)

\* d.replace(year, period, day)
Replaced(d, year, period, day) ==
    IF d.cls = "Seasonal" THEN SeasonalDate_replace(d, year, period, day)
    ELSE IFCDate_replace(d, year, period, day)

\* d - timedelta(days = k)
Minus(d, k) ==
    IF d.cls = "Seasonal" THEN Date_sub(d, k) ELSE IFCDate_sub(d, k)

\* d.weekday()
Weekday(d) ==
    IF d.cls = "Seasonal" THEN SeasonalDate_weekday(d)
    ELSE IF d.cls = "Positivist" THEN PositivistDate_weekday(d)
    ELSE IFCDate_weekday(d)

\* the locals of cls.fromordinal(n): SeasonalDate.fromordinal passes n + 11
\* to Date.fromordinal
FromOrdinalLocals(cls, n) ==
    IF cls = "Seasonal" THEN fromordinal_locals(n + SEASONAL_SHIFT)
    ELSE fromordinal_locals(n)

-----------------------------------------------------------------------------
(* Datetimes: IFCDatetime, PositivistDatetime (ifc.py), SeasonalDatetime    *)
(* (seasonal.py).  tzinfo is 0 for None and 1 for a tzinfo object.          *)

DtRaise(exc) ==
    [kind |-> exc, cls |-> "none", year |-> 0, period |-> 0, day |-> 0,
     hour |-> 0, minute |-> 0, second |-> 0, microsecond |-> 0, tzinfo |-> 0]

DtObj(cls, year, period, day, hour, minute, second, microsecond, tzinfo) ==
    [kind |-> "datetime", cls |-> cls, year |-> year, period |-> period,
     day |-> day, hour |-> hour, minute |-> minute, second |-> second,
     microsecond |-> microsecond, tzinfo |-> tzinfo]

NoDatetime == DtRaise("none")

\* datetime.time(hour, minute, second, microsecond, tzinfo) accepts its
\* arguments
time_ok(hour, minute, second, microsecond) ==
    /\ 0 <= hour /\ hour <= 23
    /\ 0 <= minute /\ minute <= 59
    /\ 0 <= second /\ second <= 59
    /\ 0 <= microsecond /\ microsecond <= 999999

\* __post_init__ of the datetime classes: validation by constructing the
\* date and the time
IFCDatetime_post_init(cls, year, month, day, hour, minute, second, microsecond, tzinfo) ==
    LET date == IFCDate_post_init(cls, year, month, day)
    IN  IF date.kind # "date" THEN DtRaise(date.kind)
        ELSE IF ~time_ok(hour, minute, second, microsecond) THEN DtRaise("ValueError")
        ELSE DtObj(cls, year, month, day, hour, minute, second, microsecond, tzinfo)

SeasonalDatetime_post_init(cls, year, season, day, hour, minute, second, microsecond, tzinfo) ==
    LET date == SeasonalDate_post_init(cls, year, season, day)
    IN  IF date.kind # "date" THEN DtRaise(date.kind)
        ELSE IF ~time_ok(hour, minute, second, microsecond) THEN DtRaise("ValueError")
        ELSE DtObj(cls, year, season, day, hour, minute, second, microsecond, tzinfo)

IFCDatetime_replace(x, year, month, day, hour, minute, second, microsecond, tzinfo) ==
    IFCDatetime_post_init(x.cls, Or(year, x.year), Or(month, x.period),
        Or(day, x.day), Or(hour, x.hour), Or(minute, x.minute),
        Or(second, x.second), Or(microsecond, x.microsecond),
        Or(tzinfo, x.tzinfo))

SeasonalDatetime_replace(x, year, season, day, hour, minute, second, microsecond, tzinfo) ==
    SeasonalDatetime_post_init(x.cls, Or(year, x.year), Or(season, x.period),
        Or(day, x.day), Or(hour, x.hour), Or(minute, x.minute),
        Or(second, x.second), Or(microsecond, x.microsecond),
        Or(tzinfo, x.tzinfo))

\* the datetime class of cls, called with the fields a
NewDatetime(cls, a) ==
    IF cls = "Seasonal"
    THEN SeasonalDatetime_post_init(cls, a[1], a[2], a[3], a[4], a[5], a[6], a[7], a[8])
    ELSE IFCDatetime_post_init(cls, a[1], a[2], a[3], a[4], a[5], a[6], a[7], a[8])

\* x.replace(...) with the arguments a
ReplacedDatetime(x, a) ==
    IF x.cls = "Seasonal"
    THEN SeasonalDatetime_replace(x, a[1], a[2], a[3], a[4], a[5], a[6], a[7], a[8])
    ELSE IFCDatetime_replace(x, a[1], a[2], a[3], a[4], a[5], a[6], a[7], a[8])

-----------------------------------------------------------------------------
(* Inputs *)

\* years at which the 1-, 4-, 100- and 400-year cycles of the ordinal engine
\* meet, the first and the last year, and the years of the test suite
SeamYears == {1, 4, 100, 400, 2000, 2020, 9999}

YearInputs == UNION {(s - YearSpan)..(s + YearSpan) : s \in SeamYears}

PeriodInputs(cls) ==
    IF cls = "Seasonal" THEN (MIN_SEASON - Margin)..(MAX_SEASON + Margin)
    ELSE (MIN_MONTH - Margin)..(MAX_MONTH + Margin)

DayInputs(cls) ==
    IF cls = "Seasonal" THEN (0 - Margin)..(DAYS_IN_SEASON + Margin)
    ELSE (1 - Margin)..(DAYS_IN_MONTH + 2 + Margin)

\* the ordinals of the input years, within the range of valid ordinals
OrdinalInputs ==
    LET all == UNION {(days_before_year(y) + 1 - SEASONAL_SHIFT)..days_before_year(y + 1)
                        : y \in YearInputs}
    IN  {o \in all : 1 <= o /\ o <= MAX_ORDINAL}

Deltas == (0 - MaxDelta)..MaxDelta

\* an argument of replace(): not given, or given as 0 or as 1
OptionalInputs == {<<>>, <<0>>, <<1>>}

\* the calls of replace() that are made: any fields given as 0, or one
\* field given as 1
ReplaceInputs ==
    {a \in OptionalInputs \X OptionalInputs \X OptionalInputs :
        \/ \A i \in 1..3 : a[i] # <<1>>
        \/ Cardinality({i \in 1..3 : a[i] # <<>>}) = 1}

\* the dates that a date d is compared with: days of d's period and of the
\* next one, and the first day of the next year
CompareInputs(d) ==
    ({d.year} \X {d.period, d.period + 1} \X {0, 1, 29, 71, d.day})
        \cup {<<d.year + 1, 1, 1>>}

\* (hour, minute, second, microsecond) given to a datetime class
TimeInputs == {<<0, 0, 0, 0>>, <<5, 6, 7, 8>>, <<23, 59, 59, 999999>>, <<24, 0, 0, 0>>}

\* the fields given to a datetime class
DatetimeInputs(cls) ==
    {<<y, p, d, t[1], t[2], t[3], t[4], tz>> :
        y \in YearInputs,
        p \in {1, IF cls = "Seasonal" THEN MAX_SEASON ELSE MAX_MONTH},
        d \in {0, 1}, t \in TimeInputs, tz \in {0, 1}}

NoFields == <<<<>>, <<>>, <<>>, <<>>, <<>>, <<>>, <<>>, <<>>>>

\* the calls of replace() on a datetime: no field, one field given as 0,
\* every field given as 0, or the hour given as 1
DatetimeReplaceInputs ==
    {NoFields, [i \in 1..8 |-> <<0>>], [NoFields EXCEPT ![4] = <<1>>]}
        \cup {[NoFields EXCEPT ![i] = <<0>>] : i \in 1..8}

-----------------------------------------------------------------------------
(* State *)

VARIABLES
    cal,      \* the date class under test
    pc,       \* the last operation that ran
    args,     \* the (year, period, day) given to the constructor
    self,     \* the outcome of the constructor: a date or an exception
    n,        \* an ordinal: an input, or the value of self.toordinal()
    delta,    \* the days of the timedelta that was added or subtracted
    rargs,    \* the arguments given to replace()
    result,   \* the outcome of fromordinal, __add__, __sub__ or replace
    result2,  \* the outcome of fromordinal(n + 1)
    m,        \* result.toordinal()
    locals,   \* the local variables of the call fromordinal(n)
    w,        \* self.weekday()
    other,    \* the date that self is compared with
    lt,       \* self < other
    eq,       \* self == other
    n2,       \* other.toordinal()
    dtargs,   \* the fields given to the datetime class
    dt,       \* the outcome of the datetime class: a datetime or an exception
    dtrargs,  \* the arguments given to replace() of the datetime
    dtresult, \* the outcome of replace() of the datetime
    wk,       \* self.week_of_year()
    wk2       \* other.week_of_year()

vars == <<cal, pc, args, self, n, delta, rargs, result, result2, m,
          locals, w, other, lt, eq, n2, dtargs, dt, dtrargs, dtresult,
          wk, wk2>>

\* the state of the comparison and of the datetime
cmpVars == <<other, lt, eq, n2>>
dtVars == <<dtargs, dt, dtrargs, dtresult>>
weekVars == <<wk, wk2>>

NoArgs == <<0, 0, 0>>

NoDtArgs == <<0, 0, 0, 0, 0, 0, 0, 0>>

Init ==
    /\ cal \in Calendars
    /\ \/ /\ pc = "args"
          /\ args \in YearInputs \X PeriodInputs(cal) \X DayInputs(cal)
          /\ n = 0
          /\ dtargs = NoDtArgs
       \/ /\ pc = "ordinal"
          /\ args = NoArgs
          /\ n \in OrdinalInputs
          /\ dtargs = NoDtArgs
       \/ /\ pc = "dt_args"
          /\ args = NoArgs
          /\ n = 0
          /\ dtargs \in DatetimeInputs(cal)
    /\ self = NoDate
    /\ delta = 0
    /\ rargs = <<<<>>, <<>>, <<>>>>
    /\ result = NoDate
    /\ result2 = NoDate
    /\ m = 0
    /\ locals = NoLocals
    /\ w = 0
    /\ other = NoDate
    /\ lt = FALSE
    /\ eq = FALSE
    /\ n2 = 0
    /\ dt = NoDatetime
    /\ dtrargs = NoFields
    /\ dtresult = NoDatetime
    /\ wk = 0
    /\ wk2 = 0

\* cal(year, period, day)
Construct ==
    /\ pc = "args"
    /\ self' = New(cal, args[1], args[2], args[3])
    /\ pc' = "constructed"
    /\ UNCHANGED <<cal, args, n, delta, rargs, result, result2, m, locals, w>>
    /\ UNCHANGED <<cmpVars, dtVars>>
    /\ UNCHANGED weekVars

\* self.toordinal()
DateToOrdinal ==
    /\ pc = "constructed"
    /\ self.kind = "date"
    /\ n' = ToOrdinal(self)
    /\ pc' = "toordinal"
    /\ UNCHANGED <<cal, args, self, delta, rargs, result, result2, m, locals, w>>
    /\ UNCHANGED <<cmpVars, dtVars>>
    /\ UNCHANGED weekVars

\* cal.fromordinal(self.toordinal())
OrdinalToDate ==
    /\ pc = "toordinal"
    /\ result' = FromOrdinal(cal, n)
    /\ pc' = "roundtrip"
    /\ UNCHANGED <<cal, args, self, n, delta, rargs, result2, m, locals, w>>
    /\ UNCHANGED <<cmpVars, dtVars>>
    /\ UNCHANGED weekVars

\* self + timedelta(days = k)
Add ==
    /\ pc = "constructed"
    /\ self.kind = "date"
    /\ \E k \in Deltas :
        /\ delta' = k
        /\ result' = Plus(self, k)
    /\ n' = ToOrdinal(self)
    /\ pc' = "added"
    /\ UNCHANGED <<cal, args, self, rargs, result2, m, locals, w>>
    /\ UNCHANGED <<cmpVars, dtVars>>
    /\ UNCHANGED weekVars

\* self - timedelta(days = k)
Sub ==
    /\ pc = "constructed"
    /\ self.kind = "date"
    /\ \E k \in Deltas :
        /\ delta' = k
        /\ result' = Minus(self, k)
    /\ n' = ToOrdinal(self)
    /\ pc' = "subtracted"
    /\ UNCHANGED <<cal, args, self, rargs, result2, m, locals, w>>
    /\ UNCHANGED <<cmpVars, dtVars>>
    /\ UNCHANGED weekVars

\* self.replace(year, period, day)
Replace ==
    /\ pc = "constructed"
    /\ self.kind = "date"
    /\ \E a \in ReplaceInputs :
        /\ rargs' = a
        /\ result' = Replaced(self, a[1], a[2], a[3])
    /\ pc' = "replaced"
    /\ UNCHANGED <<cal, args, self, n, delta, result2, m, locals, w>>
    /\ UNCHANGED <<cmpVars, dtVars>>
    /\ UNCHANGED weekVars

\* self.weekday()
DateWeekday ==
    /\ pc = "constructed"
    /\ self.kind = "date"
    /\ w' = Weekday(self)
    /\ n' = ToOrdinal(self)
    /\ pc' = "weekday"
    /\ UNCHANGED <<cal, args, self, delta, rargs, result, result2, m, locals>>
    /\ UNCHANGED <<cmpVars, dtVars>>
    /\ UNCHANGED weekVars

\* self < other and self == other, with the ordinals of both
Compare ==
    /\ pc = "constructed"
    /\ self.kind = "date"
    /\ \E a \in CompareInputs(self) :
        /\ New(cal, a[1], a[2], a[3]).kind = "date"
        /\ other' = New(cal, a[1], a[2], a[3])
    /\ lt' = Date_lt(self, other')
    /\ eq' = Date_eq(self, other')
    /\ n' = ToOrdinal(self)
    /\ n2' = ToOrdinal(other')
    /\ pc' = "compared"
    /\ UNCHANGED <<cal, args, self, delta, rargs, result, result2, m, locals, w>>
    /\ UNCHANGED dtVars
    /\ UNCHANGED weekVars

\* cal.fromordinal(n)
FromOrdinalInput ==
    /\ pc = "ordinal"
    /\ result' = FromOrdinal(cal, n)
    /\ locals' = FromOrdinalLocals(cal, n)
    /\ pc' = "fromordinal"
    /\ UNCHANGED <<cal, args, self, n, delta, rargs, result2, m, w>>
    /\ UNCHANGED <<cmpVars, dtVars>>
    /\ UNCHANGED weekVars

\* cal.fromordinal(n + 1), the date of the next day
FromOrdinalNext ==
    /\ pc = "fromordinal"
    /\ n + 1 <= MAX_ORDINAL
    /\ result2' = FromOrdinal(cal, n + 1)
    /\ pc' = "next"
    /\ UNCHANGED <<cal, args, self, n, delta, rargs, result, m, locals, w>>
    /\ UNCHANGED <<cmpVars, dtVars>>
    /\ UNCHANGED weekVars

\* result.toordinal(), of the date that fromordinal or __add__ returned
ResultToOrdinal ==
    /\ pc \in {"fromordinal", "added"}
    /\ result.kind = "date"
    /\ m' = ToOrdinal(result)
    /\ pc' = IF pc = "added" THEN "added_back" ELSE "fromordinal_back"
    /\ UNCHANGED <<cal, args, self, n, delta, rargs, result, result2, locals, w>>
    /\ UNCHANGED <<cmpVars, dtVars>>
    /\ UNCHANGED weekVars

\* the datetime class of cal, called with the fields dtargs
ConstructDatetime ==
    /\ pc = "dt_args"
    /\ dt' = NewDatetime(cal, dtargs)
    /\ pc' = "dt_constructed"
    /\ UNCHANGED <<cal, args, self, n, delta, rargs, result, result2, m, locals, w>>
    /\ UNCHANGED <<cmpVars, dtargs, dtrargs, dtresult>>
    /\ UNCHANGED weekVars

\* dt.replace(...)
ReplaceDatetime ==
    /\ pc = "dt_constructed"
    /\ dt.kind = "datetime"
    /\ \E a \in DatetimeReplaceInputs :
        /\ dtrargs' = a
        /\ dtresult' = ReplacedDatetime(dt, a)
    /\ pc' = "dt_replaced"
    /\ UNCHANGED <<cal, args, self, n, delta, rargs, result, result2, m, locals, w>>
    /\ UNCHANGED <<cmpVars, dtargs, dt>>
    /\ UNCHANGED weekVars

\* self.week_of_year(), a method of SeasonalDate only
DateWeekOfYear ==
    /\ pc = "constructed"
    /\ self.kind = "date"
    /\ cal = "Seasonal"
    /\ wk' = SeasonalDate_week_of_year(self)
    /\ pc' = "week_of_year"
    /\ UNCHANGED <<cal, args, self, n, delta, rargs, result, result2, m, locals, w>>
    /\ UNCHANGED <<cmpVars, dtVars, wk2>>

\* self.week_of_year() and other.week_of_year(), of two compared dates
CompareWeeks ==
    /\ pc = "compared"
    /\ cal = "Seasonal"
    /\ wk' = SeasonalDate_week_of_year(self)
    /\ wk2' = SeasonalDate_week_of_year(other)
    /\ pc' = "compared_weeks"
    /\ UNCHANGED <<cal, args, self, n, delta, rargs, result, result2, m, locals, w>>
    /\ UNCHANGED <<cmpVars, dtVars>>

Next ==
    \/ Construct
    \/ DateToOrdinal
    \/ OrdinalToDate
    \/ Add
    \/ Sub
    \/ Replace
    \/ DateWeekday
    \/ Compare
    \/ FromOrdinalInput
    \/ FromOrdinalNext
    \/ ResultToOrdinal
    \/ ConstructDatetime
    \/ ReplaceDatetime
    \/ DateWeekOfYear
    \/ CompareWeeks

Spec == Init /\ [][Next]_vars

-----------------------------------------------------------------------------
(* Properties *)

\* C1: IFC round trip.  For every valid IFCDate d, fromordinal(d.toordinal())
\* is d; for every ordinal n in 1..MAX_ORDINAL, fromordinal(n) is a date and
\* its toordinal() is n.
C1_IFCRoundTrip ==
    cal = "IFC" =>
        /\ pc = "roundtrip" => result = self
        /\ pc \in {"fromordinal", "fromordinal_back", "next"} =>
              result.kind = "date" /\ result.cls = "IFC"
        /\ pc = "fromordinal_back" => m = n

\* Leap Day of a leap year has been converted to its ordinal and back
C1_Witness ==
    /\ cal = "IFC"
    /\ pc = "roundtrip"
    /\ self.kind = "date" /\ self.period = 6 /\ self.day = 29
    /\ result = self

\* C2: Seasonal round trip from dates.  For every valid SeasonalDate d,
\* fromordinal(d.toordinal()) succeeds and is d.
C2_SeasonalRoundTripFromDate ==
    (cal = "Seasonal" /\ pc = "roundtrip") => result = self

\* C3: Seasonal round trip from ordinals.  For every ordinal n in
\* 1..MAX_ORDINAL, fromordinal(n) is a valid SeasonalDate, no error is
\* raised, and its toordinal() is n.
C3_SeasonalRoundTripFromOrdinal ==
    cal = "Seasonal" =>
        /\ pc \in {"fromordinal", "fromordinal_back", "next"} =>
              result.kind = "date" /\ result.cls = "Seasonal"
        /\ pc = "fromordinal_back" => m = n

\* C4: IFC validation.  IFCDate(year, month, day) succeeds exactly when
\* 1 <= year <= 9999, 1 <= month <= 13 and 1 <= day <= dim, where dim is 29
\* when month = 13 or (month = 6 and the year is leap) and 28 otherwise;
\* every other triple raises a validation error.
C4_IFCValidation ==
    (cal = "IFC" /\ pc = "constructed") =>
        LET year  == args[1]
            month == args[2]
            day   == args[3]
            leap  == year % 4 = 0 /\ (year % 100 # 0 \/ year % 400 = 0)
            dim   == IF month = 13 \/ (month = 6 /\ leap) THEN 29 ELSE 28
            valid == /\ 1 <= year /\ year <= 9999
                     /\ 1 <= month /\ month <= 13
                     /\ 1 <= day /\ day <= dim
        IN  /\ valid => self = [kind |-> "date", cls |-> "IFC", year |-> year,
                                period |-> month, day |-> day]
            /\ ~valid => self.kind = "ValueError"
            /\ args \in {<<2019, 13, 29>>, <<2000, 6, 29>>} => self.kind = "date"
            /\ args \in {<<2019, 13, 30>>, <<2001, 6, 29>>, <<2019, 5, 29>>,
                         <<0, 1, 1>>, <<10000, 13, 28>>, <<2019, 14, 1>>,
                         <<2019, 0, 1>>, <<2019, 13, 0>>} => self.kind = "ValueError"

\* Leap Day of the leap year 2000 has been constructed
C4_Witness ==
    /\ cal = "IFC"
    /\ pc = "constructed"
    /\ args = <<2000, 6, 29>>
    /\ self.kind = "date"

\* C5: Positivist validation.  PositivistDate(year, month, day) is valid
\* exactly when 1 <= year <= 9999, 1 <= month <= 13 and either
\* 1 <= day <= 28, or month = 13 and day = 29, or month = 13 and day = 30 in
\* a leap year.
C5_PositivistValidation ==
    (cal = "Positivist" /\ pc = "constructed") =>
        LET year  == args[1]
            month == args[2]
            day   == args[3]
            leap  == year % 4 = 0 /\ (year % 100 # 0 \/ year % 400 = 0)
            valid == /\ 1 <= year /\ year <= 9999
                     /\ 1 <= month /\ month <= 13
                     /\ \/ 1 <= day /\ day <= 28
                        \/ month = 13 /\ day = 29
                        \/ month = 13 /\ day = 30 /\ leap
        IN  self.kind = "date" <=> valid

\* C6: Seasonal validation.  SeasonalDate(year, season, day) is valid
\* exactly when 1 <= year <= 9999, 1 <= season <= 5 and
\* minDay <= day <= 73, where minDay is 0 when season = 1 in a leap year and
\* 1 otherwise.
C6_SeasonalValidation ==
    (cal = "Seasonal" /\ pc = "constructed") =>
        LET year   == args[1]
            season == args[2]
            day    == args[3]
            leap   == year % 4 = 0 /\ (year % 100 # 0 \/ year % 400 = 0)
            minDay == IF season = 1 /\ leap THEN 0 ELSE 1
            valid  == /\ 1 <= year /\ year <= 9999
                      /\ 1 <= season /\ season <= 5
                      /\ minDay <= day /\ day <= 73
        IN  /\ valid => self = [kind |-> "date", cls |-> "Seasonal", year |-> year,
                                period |-> season, day |-> day]
            /\ ~valid => self.kind = "ValueError"
            /\ (day = 0 /\ season >= 2) => self.kind = "ValueError"
            /\ day = 74 => self.kind = "ValueError"

\* the leap day Winter 0 of a leap year has been constructed
C6_Witness ==
    /\ cal = "Seasonal"
    /\ pc = "constructed"
    /\ args = <<2020, 1, 0>>
    /\ self.kind = "date"

\* C7: ordinal range.  For every calendar and every valid date d,
\* d.toordinal() lies in 1..MAX_ORDINAL; the minimum date (1, 1, 1) maps to 1
\* and the maximum date, (9999, 13, 29) or (9999, 5, 73), to MAX_ORDINAL.
C7_OrdinalRange ==
    pc = "toordinal" =>
        /\ 1 <= n /\ n <= MAX_ORDINAL
        /\ args = <<1, 1, 1>> => n = 1
        /\ (cal = "IFC" /\ args = <<9999, 13, 29>>) => n = MAX_ORDINAL
        /\ (cal = "Seasonal" /\ args = <<9999, 5, 73>>) => n = MAX_ORDINAL

\* C8: day-delta addition.  With o = d.toordinal() + k: if
\* 1 <= o <= MAX_ORDINAL then d + k is a date whose toordinal() is o, and
\* otherwise d + k raises OverflowError; no other error is raised.
C8_AddDays ==
    pc \in {"added", "added_back"} =>
        LET o == n + delta
        IN  IF 1 <= o /\ o <= MAX_ORDINAL
            THEN /\ result.kind = "date"
                 /\ pc = "added_back" => m = o
            ELSE result.kind = "OverflowError"

\* C9: monotonicity, as claimed.  For consecutive ordinals n, n + 1 whose
\* dates are in the same year, (period, day) of fromordinal(n + 1) is
\* lexicographically not less than that of fromordinal(n), and when it is in
\* a later period its day is that period's minimum valid day.
C9_MonotoneAsClaimed ==
    (pc = "next" /\ result.kind = "date" /\ result2.kind = "date"
        /\ result.year = result2.year) =>
        /\ \/ result.period < result2.period
           \/ result.period = result2.period /\ result.day <= result2.day
        /\ result.period < result2.period =>
              result2.day = (IF cal = "Seasonal" /\ result2.period = 1
                                /\ isleap(result2.year) THEN 0 ELSE 1)

\* C9: monotonicity, amended.  As above, except that in a leap year of the
\* Seasonal calendar Winter 70 is followed by the leap day Winter 0; a date
\* in a later period than its predecessor has day 1.
C9_MonotoneExceptLeapDay ==
    (pc = "next" /\ result.kind = "date" /\ result2.kind = "date"
        /\ result.year = result2.year) =>
        /\ \/ result.period < result2.period
           \/ result.period = result2.period /\ result.day <= result2.day
           \/ /\ cal = "Seasonal"
              /\ isleap(result.year)
              /\ result.period = 1 /\ result.day = 70
              /\ result2.period = 1 /\ result2.day = 0
        /\ result.period < result2.period => result2.day = 1

\* the day after the Seasonal leap day is Winter 71
C9_Witness ==
    /\ cal = "Seasonal"
    /\ pc = "next"
    /\ result.kind = "date" /\ result.period = 1 /\ result.day = 0
    /\ result2.kind = "date" /\ result2.period = 1 /\ result2.day = 71

\* C10: replace() with no field given succeeds and returns a date equal to
\* the original, for every valid date of every calendar.
C10_ReplaceNothing ==
    (pc = "replaced" /\ rargs = <<<<>>, <<>>, <<>>>>) => result = self

\* replace() with no field given has been called on the Seasonal leap day
C10_Witness ==
    /\ pc = "replaced"
    /\ rargs = <<<<>>, <<>>, <<>>>>
    /\ cal = "Seasonal"
    /\ self.kind = "date" /\ self.day = 0
    /\ result = self

\* C11: leap-year agreement in the ordinal engine.  For every ordinal that
\* does not take the last-day branch, the leap flag computed from the cycle
\* quotients equals the Gregorian predicate of the computed year, so the
\* assertion of fromordinal never fails; for every ordinal that takes the
\* branch, year - 1 is a leap year.
C11_LeapFlagAgrees ==
    pc \in {"fromordinal", "fromordinal_back", "next"} =>
        LET y == IF locals.last_day THEN locals.year - 1 ELSE locals.year
            gregorian == y % 4 = 0 /\ (y % 100 # 0 \/ y % 400 = 0)
        IN  /\ result.kind # "AssertionError"
            /\ locals.last_day <=> (locals.n1 = 4 \/ locals.n100 = 4)
            /\ locals.last_day => gregorian
            /\ ~locals.last_day => (locals.leapyear <=> gregorian)

\* the last day of a 400-year cycle has been converted
C11_Witness ==
    /\ cal = "IFC"
    /\ pc = "fromordinal"
    /\ locals.n100 = 4
    /\ result.kind = "date"

\* C12: IFC weekday.  weekday() is 7 exactly on (13, 29), 8 exactly on
\* (6, 29), and otherwise z mod 7 in 0..6, where z is the zero-based day of
\* the year plus 1 when the month is 7 or later in a leap year.
C12_IFCWeekday ==
    (cal = "IFC" /\ pc = "weekday") =>
        LET year == self.year
            leap == year % 4 = 0 /\ (year % 100 # 0 \/ year % 400 = 0)
            z0   == n - days_before_year(year) - 1
            z    == IF self.period >= 7 /\ leap THEN z0 + 1 ELSE z0
        IN  /\ w = 7 <=> (self.period = 13 /\ self.day = 29)
            /\ w = 8 <=> (self.period = 6 /\ self.day = 29)
            /\ w \notin {7, 8} => (w \in 0..6 /\ w = z % 7)

\* the weekday of a day after Leap Day in a leap year has been computed
C12_Witness ==
    /\ cal = "IFC"
    /\ pc = "weekday"
    /\ self.year = 2020 /\ self.period = 7 /\ self.day = 1
    /\ w = 2

\* C13: ordinal decomposition.  days_before_year(1) is 0 and grows by 366
\* over a leap year and by 365 over any other year; for every ordinal in
\* 1..MAX_ORDINAL the engine yields (year, dayOfYear) with 1 <= year <= 9999,
\* dayOfYear within the year and days_before_year(year) + dayOfYear + 1 equal
\* to the ordinal, the last-day branch yielding day 365 of the previous year.
C13_Decomposition ==
    /\ (pc = "constructed" /\ self.kind = "date") =>
          LET y    == self.year
              leap == y % 4 = 0 /\ (y % 100 # 0 \/ y % 400 = 0)
          IN  /\ y = 1 => days_before_year(y) = 0
              /\ days_before_year(y + 1) - days_before_year(y)
                    = (IF leap THEN 366 ELSE 365)
    /\ (pc \in {"fromordinal", "fromordinal_back", "next"}
            /\ 1 <= locals.arg /\ locals.arg <= MAX_ORDINAL) =>
          LET year == IF locals.last_day THEN locals.year - 1 ELSE locals.year
              dayOfYear == IF locals.last_day THEN DAYS_IN_YEAR ELSE locals.n
              leap == year % 4 = 0 /\ (year % 100 # 0 \/ year % 400 = 0)
          IN  /\ 1 <= year /\ year <= 9999
              /\ 0 <= dayOfYear
              /\ dayOfYear <= (IF leap THEN 365 ELSE 364)
              /\ days_before_year(year) + dayOfYear + 1 = locals.arg

\* the last day of a leap year at a 4-year seam has been decomposed
C13_Witness ==
    /\ cal = "IFC"
    /\ pc = "fromordinal"
    /\ locals.n1 = 4
    /\ locals.year = 2021

\* C14: Seasonal toordinal layout.  d.toordinal() is
\* days_before_year(d.year) - 11 + p, where p is the 1-based position of d in
\* the sequence Winter 1..70, (Winter 0 in leap years), Winter 71..73,
\* Spring 1..73, Summer 1..73, Autumn 1..73, Fall 1..73.
C14_SeasonalLayout ==
    (cal = "Seasonal" /\ pc = "toordinal") =>
        LET y    == self.year
            leap == y % 4 = 0 /\ (y % 100 # 0 \/ y % 400 = 0)
            days == [i \in 1..70 |-> <<1, i>>]
                        \o (IF leap THEN << <<1, 0>> >> ELSE << >>)
                        \o [i \in 1..3 |-> <<1, 70 + i>>]
                        \o [i \in 1..292 |-> <<2 + ((i - 1) \div 73), 1 + ((i - 1) % 73)>>]
            p    == CHOOSE i \in 1..Len(days) : days[i] = <<self.period, self.day>>
        IN  n = days_before_year(y) - 11 + p

\* the ordinal of Winter 71 of a leap year has been computed
C14_Witness ==
    /\ cal = "Seasonal"
    /\ pc = "toordinal"
    /\ self.year = 2020 /\ self.period = 1 /\ self.day = 71
    /\ n = days_before_year(2020) - 11 + 72

\* C15: Seasonal weekday.  weekday() is 10 exactly when day = 0, 9 exactly
\* when day = 37, (day - 2) mod 9 when day > 37 and (day - 1) mod 9 when
\* 1 <= day < 37; days 1 and 38 have weekday 0, days 36 and 73 weekday 8.
C15_SeasonalWeekday ==
    (cal = "Seasonal" /\ pc = "weekday") =>
        /\ w = 10 <=> self.day = 0
        /\ w = 9 <=> self.day = 37
        /\ self.day > 37 => w = (self.day - 2) % 9
        /\ (1 <= self.day /\ self.day < 37) => w = (self.day - 1) % 9
        /\ self.day \notin {0, 37} => w \in 0..8
        /\ self.day \in {1, 38} => w = 0
        /\ self.day \in {36, 73} => w = 8

\* the weekday of the last day of a season has been computed
C15_Witness ==
    /\ cal = "Seasonal"
    /\ pc = "weekday"
    /\ self.day = 73
    /\ w = 8

\* C16: Positivist weekday.  Apart from the festival days, weekday() is
\* (day of year - 1) mod 7, which is (day - 1) mod 7 in every month of every
\* year; (13, 29) gives 7 and (13, 30) gives 8.
C16_PositivistWeekday ==
    (cal = "Positivist" /\ pc = "weekday") =>
        IF self.period = 13 /\ self.day = 29 THEN w = 7
        ELSE IF self.period = 13 /\ self.day = 30 THEN w = 8
        ELSE /\ w = (n - days_before_year(self.year) - 1) % 7
             /\ w = (self.day - 1) % 7

\* C17: IFC perpetual week.  For every valid IFCDate with day <= 28, in
\* every month of every year, weekday() is (day - 1) mod 7.
C17_IFCPerpetualWeek ==
    (cal = "IFC" /\ pc = "weekday" /\ self.day <= 28) =>
        w = (self.day - 1) % 7

\* C18: calendar preservation.  d + k and d - k are dates of the calendar of
\* d, and C.fromordinal yields a date of C.
C18_SameCalendar ==
    (pc \in {"added", "added_back", "subtracted", "fromordinal", "roundtrip"}
        /\ result.kind = "date") => result.cls = cal

\* C19: ordering agrees with the timeline.  For two valid dates of one
\* calendar, d1 < d2 exactly when d1.toordinal() < d2.toordinal(), and
\* d1 == d2 exactly when the ordinals are equal.
C19_OrderIsChronological ==
    pc = "compared" =>
        /\ lt <=> n < n2
        /\ eq <=> n = n2

C21_SeasonalWeekOfYear ==
    /\ pc \in {"week_of_year", "compared_weeks"} =>
          /\ wk \in 0..7
          /\ (1 <= self.day /\ self.day < 37) => wk = (self.day - 1) \div 9
          /\ self.day > 37 => wk = (self.day - 2) \div 9
          /\ self.day = 37 => wk = 3
          /\ self.day = 36 => wk = 3
          /\ self.day \in {0, 70, 71} => wk = 7
    /\ (pc = "compared_weeks" /\ self.year = other.year
            /\ self.period = other.period /\ n < n2) => wk <= wk2

\* the weeks of Winter 70 and of the leap day that follows it have been
\* computed
C21_Witness ==
    /\ cal = "Seasonal"
    /\ pc = "compared_weeks"
    /\ self.period = 1 /\ self.day = 70
    /\ other.period = 1 /\ other.day = 0
    /\ n2 = n + 1
    /\ wk = 7 /\ wk2 = 7

=============================================================================
